---------------------------- MODULE Spec2Model ----------------------------
(***************************************************************************)
(* A model of the Pumpkin server's process start-up, signal handling,      *)
(* panic hook, tick task, accept loop and per-connection task, with the    *)
(* frames of a connection (pumpkin/src/lib.rs), and of the command         *)
(* suggestion compiler (pumpkin/src/command/client_cmd_suggestions.rs).    *)
(***************************************************************************)
EXTENDS Integers, Sequences, FiniteSets, TLC

(***************************************************************************)
(* Bounds of the model.                                                    *)
(***************************************************************************)
\* Number of accepted connections whose task the model follows.
MaxConns == 1

\* Number of sockets the accept loop accepts in one run, followed or not.
MaxAccepts == 65537

\* Number of frames that arrive on one connection.
MaxFrames == 2

\* Number of nodes in the arenas of one dispatcher, all commands together.
MaxNodes == 3

\* master_client_id is a u16: wrapping_add(1) wraps at 2^16.
U16Modulus == 65536

VARIABLES
    proc,            \* the process: "running", "exit0", "exit1", "killed"
    panic_hook,      \* the installed panic hook: "default" or "exit1"
    main_pc,         \* position of main
    use_console,     \* ADVANCED_CONFIG.commands.use_console
    sig_pc,          \* position of the setup_sighandler task
    sig_stage,       \* which of the three sequential listeners the task is at
    installed,       \* signal kinds for which a listener has been installed
    pending,         \* signal kinds delivered to an installed listener, not yet received
    default_hit,     \* the signal that killed the process for want of a listener, or "none"
    panicked,        \* tasks in which a panic has unwound, as <<kind, index>>
    console_pc,      \* position of the console task
    master_client_id,
    accepted,        \* history: the number of sockets accepted so far
    id,              \* the loop's `id` of the latest accepted socket, -1 before it
    ticker_pc,       \* position of the tick task
    clients,         \* one record per followed connection, in accept order
    closed_first,    \* history: the connections whose closed flag was set while
                     \* their make_player flag was still unset
    dispatcher,      \* the command dispatcher: [commands: key -> command]
    outbox           \* per player, the CCommands packets sent to its client, each
                     \* with the order in which the keys were enumerated

vars == <<proc, panic_hook, main_pc, use_console, sig_pc, sig_stage, installed,
          pending, default_hit, panicked, console_pc, master_client_id,
          accepted, id, ticker_pc, clients, closed_first, dispatcher, outbox>>

cmdVars  == <<dispatcher, outbox>>

procVars == <<proc, panic_hook, panicked>>
sigVars  == <<sig_pc, sig_stage, installed, pending, default_hit>>
connVars == <<master_client_id, clients, closed_first>>
loopVars == <<accepted, id>>

Signals == {"interrupt", "hangup", "terminate"}

\* The order in which setup_sighandler creates and awaits its listeners.
SigOrder == <<"interrupt", "hangup", "terminate">>

Running == proc = "running"

(***************************************************************************)
(* Panics.  A panic runs the installed hook.  The hook installed by main   *)
(* calls the default hook and then std::process::exit(1).  Under the       *)
(* default hook the panic only unwinds the task: the runtime catches it    *)
(* and the other tasks go on.                                              *)
(***************************************************************************)
PanicIn(task) ==
    /\ panicked' = panicked \cup {task}
    /\ proc' = IF panic_hook = "exit1" THEN "exit1" ELSE proc
    /\ UNCHANGED panic_hook

(***************************************************************************)
(* main, up to the accept loop.                                            *)
(***************************************************************************)
\* tokio::spawn(async { setup_sighandler().await.expect(..) })
MainSpawnSighandler ==
    /\ Running /\ main_pc = "spawn_sighandler"
    /\ sig_pc' = "signal"
    /\ main_pc' = "set_hook"
    /\ UNCHANGED <<procVars, use_console, sig_stage, installed, pending,
                   default_hit, console_pc, connVars, cmdVars, loopVars, ticker_pc>>

\* take_hook / set_hook: from here on a panic exits the process with status 1.
MainSetHook ==
    /\ Running /\ main_pc = "set_hook"
    /\ panic_hook' = "exit1"
    /\ main_pc' = "setup"
    /\ UNCHANGED <<proc, panicked, use_console, sigVars, console_pc, connVars,
                   cmdVars, loopVars, ticker_pc>>

\* A setup that creates the ticker and never spawns its task.
MainSetup_NoTickTask ==
    /\ Running /\ main_pc = "setup"
    /\ \/ /\ PanicIn(<<"main", 0>>)
          /\ UNCHANGED <<main_pc, console_pc, ticker_pc>>
       \/ /\ main_pc' = "accept"
          /\ console_pc' = IF use_console THEN "read_line" ELSE console_pc
          /\ UNCHANGED <<procVars, ticker_pc>>
    /\ UNCHANGED <<use_console, sigVars, connVars, cmdVars, loopVars>>

\* Binding the listener (a failure panics in main, with the hook installed),
\* then spawning the console task when configured, and the tick task.
MainSetup ==
    /\ Running /\ main_pc = "setup"
    /\ \/ /\ PanicIn(<<"main", 0>>)
          /\ UNCHANGED <<main_pc, console_pc, ticker_pc>>
       \/ /\ main_pc' = "accept"
          /\ console_pc' = IF use_console THEN "read_line" ELSE console_pc
          /\ ticker_pc' = "tick"
          /\ UNCHANGED procVars
    /\ UNCHANGED <<use_console, sigVars, connVars, cmdVars, loopVars>>

(***************************************************************************)
(* The signal task (unix).                                                 *)
(***************************************************************************)
\* handle_interrupt: logs and exits with status 0.
handle_interrupt ==
    /\ proc' = "exit0"
    /\ UNCHANGED <<panic_hook, panicked>>

\* signal(SignalKind::..)? : installs the listener, or fails, in which case
\* setup_sighandler returns the error and the task's expect panics.
SigSignal ==
    /\ Running /\ sig_pc = "signal"
    /\ \/ /\ installed' = installed \cup {SigOrder[sig_stage]}
          /\ sig_pc' = "recv"
          /\ UNCHANGED procVars
       \/ /\ PanicIn(<<"sighandler", 0>>)
          /\ sig_pc' = "panicked"
          /\ UNCHANGED installed
    /\ UNCHANGED <<main_pc, use_console, sig_stage, pending, default_hit,
                   console_pc, connVars, cmdVars, loopVars, ticker_pc>>

\* .recv().await.is_some(): completes when the awaited kind has been delivered.
\* The stream never ends, so the later listeners are only created by the
\* (never taken) fall-through.
SigRecv ==
    /\ Running /\ sig_pc = "recv"
    /\ SigOrder[sig_stage] \in pending
    /\ pending' = pending \ {SigOrder[sig_stage]}
    /\ handle_interrupt
    /\ UNCHANGED <<main_pc, use_console, sig_pc, sig_stage, installed,
                   default_hit, console_pc, connVars, cmdVars, loopVars, ticker_pc>>

\* The operating system delivers a signal to the process.  With a listener
\* installed it is queued for the task; otherwise the kind's disposition is
\* the one the process started with: it kills the process, or is ignored.
Deliver(s) ==
    /\ Running /\ main_pc # "spawn_sighandler"
    /\ IF s \in installed
         THEN /\ pending' = pending \cup {s}
              /\ UNCHANGED <<default_hit, procVars>>
         ELSE /\ \/ proc' = "killed" /\ default_hit' = s
                 \/ UNCHANGED <<proc, default_hit>>
              /\ UNCHANGED <<pending, panic_hook, panicked>>
    /\ UNCHANGED <<main_pc, use_console, sig_pc, sig_stage, installed,
                   console_pc, connVars, cmdVars, loopVars, ticker_pc>>

(***************************************************************************)
(* The console task.                                                       *)
(***************************************************************************)
\* read_line(..).await.expect(..), then handle_command for a non-empty line.
ConsoleReadLine ==
    /\ Running /\ console_pc = "read_line"
    /\ \/ /\ PanicIn(<<"console", 0>>)
          /\ console_pc' = "panicked"
       \/ UNCHANGED <<procVars, console_pc>>
    /\ UNCHANGED <<main_pc, use_console, sigVars, connVars, cmdVars, loopVars, ticker_pc>>

(***************************************************************************)
(* The tick task: ticker.run(&server) ticks the server, sleeps for the     *)
(* rest of the tick's interval, and starts over.  Neither step waits for   *)
(* a connection task.                                                      *)
(***************************************************************************)
TickFrame == UNCHANGED <<procVars, main_pc, use_console, sigVars, console_pc,
                         connVars, cmdVars, loopVars>>

\* The world-update step of one tick.
TickerTick ==
    /\ Running /\ ticker_pc = "tick"
    /\ ticker_pc' = "sleep"
    /\ TickFrame

\* The sleep until the next tick is due.
TickerSleep ==
    /\ Running /\ ticker_pc = "sleep"
    /\ ticker_pc' = "tick"
    /\ TickFrame

TickerRun == TickerTick \/ TickerSleep

(***************************************************************************)
(* The accept loop.                                                        *)
(***************************************************************************)
\* Client::new(connection, addr, id): both flags start unset and no frame
\* has been read.  nodelay is the state of the socket's TCP_NODELAY option;
\* sent counts the frames the peer has put on the socket, wire holds those
\* not yet read, queue those read and not yet handled, handled the frames
\* handled so far, each with the handler that took it, and at_promote the
\* queue as it was when make_player was stored.
NewClient(client_id, nodelay) ==
    [id |-> client_id, nodelay |-> nodelay, pc |-> "loop_closed",
     closed |-> FALSE, make_player |-> FALSE, calls |-> <<>>, open |-> FALSE,
     sent |-> 0, wire |-> <<>>, queue |-> <<>>, handled |-> <<>>,
     at_promote |-> <<>>]

\* A counter that stops at the largest u16 instead of wrapping.
wrapping_add_Saturating(x, y) ==
    IF x + y >= U16Modulus THEN U16Modulus - 1 ELSE x + y

\* u16::wrapping_add
wrapping_add(x, y) == (x + y) % U16Modulus

\* let id = master_client_id; master_client_id = master_client_id.wrapping_add(1);
TakeId ==
    /\ id' = master_client_id
    /\ master_client_id' = wrapping_add(master_client_id, 1)
    /\ accepted' = accepted + 1

AcceptFrame == UNCHANGED <<procVars, use_console, sigVars, console_pc, cmdVars,
                           ticker_pc>>

\* An accept loop that drops a socket on which set_nodelay failed.
MainAccept_NodelayFatal ==
    /\ Running /\ main_pc = "accept"
    /\ \/ \E nodelay \in BOOLEAN :
            /\ Len(clients) < MaxConns
            /\ TakeId
            /\ clients' = IF nodelay
                            THEN Append(clients, NewClient(master_client_id, nodelay))
                            ELSE clients
            /\ UNCHANGED <<main_pc, closed_first>>
       \/ /\ main_pc' = "returned"
          /\ UNCHANGED <<connVars, loopVars>>
    /\ AcceptFrame

\* An accept loop that closes its connections before it returns the error.
MainAccept_ClosesOnError ==
    /\ Running /\ main_pc = "accept"
    /\ \/ \E nodelay \in BOOLEAN :
            /\ Len(clients) < MaxConns
            /\ TakeId
            /\ clients' = Append(clients, NewClient(master_client_id, nodelay))
            /\ UNCHANGED <<main_pc, closed_first>>
       \/ /\ main_pc' = "returned"
          /\ clients' = [c \in DOMAIN clients |-> [clients[c] EXCEPT !.closed = TRUE]]
          /\ UNCHANGED <<master_client_id, closed_first, loopVars>>
    /\ AcceptFrame

\* One turn of the accept loop: listener.accept().await? (an error returns
\* from main), set_nodelay (a failure is only logged), the identifier,
\* Client::new and the spawn of the connection task.
MainAccept ==
    /\ Running /\ main_pc = "accept"
    /\ \/ \E nodelay \in BOOLEAN :
            /\ Len(clients) < MaxConns
            /\ TakeId
            /\ clients' = Append(clients, NewClient(master_client_id, nodelay))
            /\ UNCHANGED <<main_pc, closed_first>>
       \/ /\ main_pc' = "returned"
          /\ UNCHANGED <<connVars, loopVars>>
    /\ AcceptFrame

\* A turn of the loop in which accept succeeds, for a socket whose
\* connection task the model does not follow: the task is spawned and runs
\* on its own.
MainAcceptUnfollowed ==
    /\ Running /\ main_pc = "accept"
    /\ Len(clients) >= MaxConns /\ accepted < MaxAccepts
    /\ TakeId
    /\ UNCHANGED <<main_pc, clients, closed_first>>
    /\ AcceptFrame

(***************************************************************************)
(* The connection task of client c (its index in accept order).            *)
(***************************************************************************)
At(c, where) == Running /\ c \in 1..Len(clients) /\ clients[c].pc = where

Goto(c, where) == clients' = [clients EXCEPT ![c].pc = where]

\* A call the task makes on the server, the world or the player.  Repeated
\* in-game polls are recorded once per run of polls.
Called(c, what) ==
    IF what = "poll" /\ clients[c].calls # <<>>
                     /\ clients[c].calls[Len(clients[c].calls)] = "poll"
      THEN clients[c].calls
      ELSE Append(clients[c].calls, what)

GotoCalling(c, where, what) ==
    clients' = [clients EXCEPT ![c].pc = where, ![c].calls = Called(c, what)]

ConnFrame == UNCHANGED <<procVars, main_pc, use_console, sigVars, console_pc,
                         master_client_id, closed_first, cmdVars, loopVars, ticker_pc>>

\* The peer puts one more frame on the connection's socket.
FrameArrives(c) ==
    /\ Running /\ c \in 1..Len(clients)
    /\ clients[c].pc \notin {"done", "panicked"}
    /\ clients[c].sent < MaxFrames
    /\ clients' = [clients EXCEPT ![c].sent = @ + 1,
                                  ![c].wire = Append(@, clients[c].sent + 1)]
    /\ ConnFrame

\* client.poll(): a poll that returns open has read some frames off the
\* socket into the client's queue, in their order; one that returns not
\* open has read none.  The result is the task's local `open`.
Polled(c, open, n, where) ==
    [clients EXCEPT ![c].pc = where, ![c].open = open,
                    ![c].wire = SubSeq(@, n + 1, Len(@)),
                    ![c].queue = @ \o SubSeq(clients[c].wire, 1, n)]

\* process_packets of the client or of the player: every queued frame is
\* handled, in queue order, by that handler.
Handle(c, by) ==
    [i \in 1..Len(clients[c].queue) |->
        [frame |-> clients[c].queue[i], by |-> by]]

Processed(c, by, where) ==
    [clients EXCEPT ![c].pc = where, ![c].open = FALSE, ![c].queue = <<>>,
                    ![c].handled = @ \o Handle(c, by)]

\* A loop condition that tests closed alone.
LoopLoadClosed_Only(c) ==
    /\ At(c, "loop_closed")
    /\ Goto(c, IF clients[c].closed THEN "if_make_player" ELSE "poll")
    /\ ConnFrame

\* while !client.closed.load(..)
LoopLoadClosed(c) ==
    /\ At(c, "loop_closed")
    /\ Goto(c, IF clients[c].closed THEN "if_make_player" ELSE "loop_make_player")
    /\ ConnFrame

\*       && !client.make_player.load(..)
LoopLoadMakePlayer(c) ==
    /\ At(c, "loop_make_player")
    /\ Goto(c, IF clients[c].make_player THEN "if_make_player" ELSE "poll")
    /\ ConnFrame

\* A loop body that polls and never hands the frames to process_packets.
ClientPoll_NeverProcesses(c) ==
    /\ At(c, "poll")
    /\ \E open \in BOOLEAN : \E n \in 0..Len(clients[c].wire) :
         /\ ~open => n = 0
         /\ clients' = Polled(c, open, n, "loop_closed")
    /\ ConnFrame

\* let open = client.poll().await; if open { .. }
ClientPoll(c) ==
    /\ At(c, "poll")
    /\ \E open \in BOOLEAN : \E n \in 0..Len(clients[c].wire) :
         /\ ~open => n = 0
         /\ clients' = Polled(c, open, n,
                              IF open THEN "process_packets" ELSE "loop_closed")
    /\ ConnFrame

\* client.process_packets(&server).await
ClientProcessPackets(c) ==
    /\ At(c, "process_packets")
    /\ clients' = Processed(c, "client", "loop_closed")
    /\ ConnFrame

\* A test that makes no player for a connection that is already closed.
IfMakePlayer_UnlessClosed(c) ==
    /\ At(c, "if_make_player")
    /\ Goto(c, IF clients[c].make_player /\ ~clients[c].closed
                 THEN "add_player" ELSE "done")
    /\ ConnFrame

\* if client.make_player.load(..) { .. }
IfMakePlayer(c) ==
    /\ At(c, "if_make_player")
    /\ Goto(c, IF clients[c].make_player THEN "add_player" ELSE "done")
    /\ ConnFrame

\* A handoff that gave the player a client with fresh flags.
AddPlayer_FreshFlags(c) ==
    /\ At(c, "add_player")
    /\ clients' = [clients EXCEPT ![c].pc = "spawn_player",
                                  ![c].calls = Called(c, "add_player"),
                                  ![c].closed = FALSE]
    /\ ConnFrame

\* let (player, world) = server.add_player(client).await; the player holds
\* the same client, flags included.
AddPlayer(c) ==
    /\ At(c, "add_player")
    /\ GotoCalling(c, "spawn_player", "add_player")
    /\ ConnFrame

\* world.spawn_player(&BASIC_CONFIG, player.clone(), ..).await
SpawnPlayer(c) ==
    /\ At(c, "spawn_player")
    /\ GotoCalling(c, "player_loop", "spawn_player")
    /\ ConnFrame

\* An in-game loop that never tests closed.
PlayerLoadClosed_NeverExits(c) ==
    /\ At(c, "player_loop")
    /\ Goto(c, "player_poll")
    /\ ConnFrame

\* while !player.client.closed.load(..)
PlayerLoadClosed(c) ==
    /\ At(c, "player_loop")
    /\ Goto(c, IF clients[c].closed THEN "remove" ELSE "player_poll")
    /\ ConnFrame

\* let open = player.client.poll().await; if open { .. }
PlayerPoll(c) ==
    /\ At(c, "player_poll")
    /\ \E open \in BOOLEAN : \E n \in 0..Len(clients[c].wire) :
         /\ ~open => n = 0
         /\ clients' = [Polled(c, open, n,
                               IF open THEN "player_process_packets"
                                       ELSE "player_loop")
                           EXCEPT ![c].calls = Called(c, "poll")]
    /\ ConnFrame

\* player.process_packets(&server).await
PlayerProcessPackets(c) ==
    /\ At(c, "player_process_packets")
    /\ clients' = Processed(c, "player", "player_loop")
    /\ ConnFrame

\* player.remove().await
PlayerRemove(c) ==
    /\ At(c, "remove")
    /\ GotoCalling(c, "remove_player", "remove")
    /\ ConnFrame

\* A cleanup placed inside the in-game loop instead of after it.
ServerRemovePlayer_InLoop(c) ==
    /\ At(c, "remove_player")
    /\ GotoCalling(c, "player_loop", "remove_player")
    /\ ConnFrame

\* server.remove_player().await; the task ends.
ServerRemovePlayer(c) ==
    /\ At(c, "remove_player")
    /\ GotoCalling(c, "done", "remove_player")
    /\ ConnFrame

\* The awaited calls run code outside main; a panic in one of them unwinds
\* the connection task.
Awaits == {"poll", "process_packets", "add_player", "spawn_player",
           "player_poll", "player_process_packets", "remove", "remove_player"}

ConnPanic(c) ==
    /\ Running /\ c \in 1..Len(clients) /\ clients[c].pc \in Awaits
    /\ PanicIn(<<"client", c>>)
    /\ Goto(c, "panicked")
    /\ UNCHANGED <<main_pc, use_console, sigVars, console_pc, master_client_id,
                   closed_first, cmdVars, loopVars, ticker_pc>>

(***************************************************************************)
(* The two flags are stored by the client's own packet handling and by     *)
(* other tasks; every store sets a flag, none clears one.                  *)
(***************************************************************************)
Alive(c) == Running /\ c \in 1..Len(clients)
                    /\ clients[c].pc \notin {"done", "panicked"}

SetClosed(c) ==
    /\ Alive(c) /\ ~clients[c].closed
    /\ clients' = [clients EXCEPT ![c].closed = TRUE]
    /\ closed_first' = IF clients[c].make_player THEN closed_first
                                                 ELSE closed_first \cup {c}
    /\ UNCHANGED <<procVars, main_pc, use_console, sigVars, console_pc,
                   master_client_id, cmdVars, loopVars, ticker_pc>>

SetMakePlayer(c) ==
    /\ Alive(c) /\ ~clients[c].make_player
    /\ clients' = [clients EXCEPT ![c].make_player = TRUE,
                                  ![c].at_promote = clients[c].queue]
    /\ ConnFrame

\* The steps of the connection task itself, each returning normally.
ConnTask(c) ==
    \/ LoopLoadClosed(c)
    \/ LoopLoadMakePlayer(c)
    \/ ClientPoll(c)
    \/ ClientProcessPackets(c)
    \/ IfMakePlayer(c)
    \/ AddPlayer(c)
    \/ SpawnPlayer(c)
    \/ PlayerLoadClosed(c)
    \/ PlayerPoll(c)
    \/ PlayerProcessPackets(c)
    \/ PlayerRemove(c)
    \/ ServerRemovePlayer(c)

ConnStep(c) ==
    \/ ConnTask(c)
    \/ ConnPanic(c)
    \/ SetClosed(c)
    \/ SetMakePlayer(c)

(***************************************************************************)
(* The command dispatcher and the trees of its commands.                   *)
(*                                                                         *)
(* A tree is [nodes, children]: nodes maps an index to a node, children    *)
(* lists the indices under the command itself.  A node is                  *)
(* [node_type, name, lvl, children]; a Require's predicate is "the sender  *)
(* has permission level lvl".  Every node carries its own name, so a       *)
(* wire node names the arena node it was made from.                        *)
(***************************************************************************)
\* The names under which commands are registered, in a fixed numbering.
KeySeq == <<"help", "stop">>

NodeNames == <<"n1", "n2", "n3", "n4", "n5", "n6", "n7", "n8">>

\* The players a packet is compiled for, with their permission levels.
Players == {"steve", "alex"}

PermissionLvl(player) == IF player = "steve" THEN 1 ELSE 2

\* The node kinds of the arena: the Require predicates ask for level 1 or 2.
Kinds == {[t |-> "Literal", lvl |-> 0], [t |-> "Argument", lvl |-> 0],
          [t |-> "ExecuteLeaf", lvl |-> 0],
          [t |-> "Require", lvl |-> 1], [t |-> "Require", lvl |-> 2]}

\* CommandSender::Player(player.clone())
CommandSenderPlayer(player) == [kind |-> "Player", player |-> player]

\* predicate(cmd_src) of a Require node.
Predicate(node, cmd_src) == PermissionLvl(cmd_src.player) >= node.lvl

\* consumer.get_client_side_parser() and
\* consumer.get_client_side_suggestion_type_override() of an Argument.
ClientSideParser(node) == <<"parser", node.name>>
SuggestionTypeOverride(node) == <<"suggestion", node.name>>

EmptyDispatcher == [commands |-> <<>>]

NoPackets == [p \in Players |-> <<>>]

\* dispatcher.get_tree(key): the tree registered under key, or an error for
\* a name that resolves to no tree.
get_tree(d, key) ==
    LET cmd == d.commands[key] IN
    IF cmd.has_tree THEN [ok |-> TRUE, tree |-> cmd.tree]
                    ELSE [ok |-> FALSE, tree |-> [nodes |-> <<>>, children |-> <<>>]]

(***************************************************************************)
(* nodes_to_proto_node_builders: the builders for a list of children, and  *)
(* whether the list makes its owner executable.                            *)
(***************************************************************************)
RECURSIVE nodes_to_proto_node_builders(_, _, _)
RECURSIVE ChildrenLoop(_, _, _, _)

\* NodeType::Argument { name, consumer } => ..
ArgumentArm(cmd_src, nodes, node, acc) ==
    LET sub == nodes_to_proto_node_builders(cmd_src, nodes, node.children) IN
    [acc EXCEPT !.child_nodes = Append(@,
        [child_nodes |-> sub.child_nodes,
         node_type |-> [t |-> "Argument", name |-> node.name,
                        is_executable |-> sub.is_executable,
                        parser |-> ClientSideParser(node),
                        override_suggestion_type |-> SuggestionTypeOverride(node)]])]

\* NodeType::Literal { string, .. } => ..
LiteralArm(cmd_src, nodes, node, acc) ==
    LET sub == nodes_to_proto_node_builders(cmd_src, nodes, node.children) IN
    [acc EXCEPT !.child_nodes = Append(@,
        [child_nodes |-> sub.child_nodes,
         node_type |-> [t |-> "Literal", name |-> node.name,
                        is_executable |-> sub.is_executable]])]

\* NodeType::ExecuteLeaf { .. } => is_executable = true
ExecuteLeafArm(cmd_src, nodes, node, acc) ==
    [acc EXCEPT !.is_executable = TRUE]

\* A gate that splices its children without asking the predicate.
RequireArm_IgnoresPredicate(cmd_src, nodes, node, acc) ==
    LET sub == nodes_to_proto_node_builders(cmd_src, nodes, node.children) IN
    [is_executable |-> acc.is_executable \/ sub.is_executable,
     child_nodes   |-> acc.child_nodes \o sub.child_nodes]

\* A gate that assigns the flag of its children instead of only raising it.
RequireArm_AssignsFlag(cmd_src, nodes, node, acc) ==
    IF Predicate(node, cmd_src)
      THEN LET sub == nodes_to_proto_node_builders(cmd_src, nodes, node.children) IN
           [is_executable |-> sub.is_executable,
            child_nodes   |-> acc.child_nodes \o sub.child_nodes]
      ELSE acc

\* A gate that puts its children in front of the nodes already collected.
RequireArm_Prepends(cmd_src, nodes, node, acc) ==
    IF Predicate(node, cmd_src)
      THEN LET sub == nodes_to_proto_node_builders(cmd_src, nodes, node.children) IN
           [is_executable |-> acc.is_executable \/ sub.is_executable,
            child_nodes   |-> sub.child_nodes \o acc.child_nodes]
      ELSE acc

\* NodeType::Require { predicate } => if predicate(cmd_src) { .. }
RequireArm(cmd_src, nodes, node, acc) ==
    IF Predicate(node, cmd_src)
      THEN LET sub == nodes_to_proto_node_builders(cmd_src, nodes, node.children) IN
           [is_executable |-> acc.is_executable \/ sub.is_executable,
            child_nodes   |-> acc.child_nodes \o sub.child_nodes]
      ELSE acc

\* for i in children { let node = &nodes[*i]; match node.node_type { .. } }:
\* the state of the loop after its first k iterations.
ChildrenLoop(cmd_src, nodes, children, k) ==
    IF k = 0
      THEN [is_executable |-> FALSE, child_nodes |-> <<>>]
      ELSE LET acc  == ChildrenLoop(cmd_src, nodes, children, k - 1)
               node == nodes[children[k]]
           IN  CASE node.node_type = "Argument"    -> ArgumentArm(cmd_src, nodes, node, acc)
                 [] node.node_type = "Literal"     -> LiteralArm(cmd_src, nodes, node, acc)
                 [] node.node_type = "ExecuteLeaf" -> ExecuteLeafArm(cmd_src, nodes, node, acc)
                 [] node.node_type = "Require"     -> RequireArm(cmd_src, nodes, node, acc)

nodes_to_proto_node_builders(cmd_src, nodes, children) ==
    ChildrenLoop(cmd_src, nodes, children, Len(children))

(***************************************************************************)
(* ProtoNodeBuilder::build: the builder's nodes appended to the buffer,    *)
(* children first, and the index of the builder's own node.  Indices count *)
(* from 0, as in the source: index i is buffer[i + 1].                     *)
(***************************************************************************)
RECURSIVE build(_, _)
RECURSIVE BuildChildren(_, _, _)

\* A loop that builds every child twice and keeps the second index.
BuildChildren_BuildsTwice(child_nodes, buffer, k) ==
    IF k = 0
      THEN [children |-> <<>>, buffer |-> buffer]
      ELSE LET acc   == BuildChildren(child_nodes, buffer, k - 1)
               once  == build(child_nodes[k], acc.buffer)
               built == build(child_nodes[k], once.buffer)
           IN  [children |-> Append(acc.children, built.i), buffer |-> built.buffer]

\* for node in self.child_nodes { let i = node.build(buffer); children.push(i) }:
\* the state of the loop after its first k iterations.
BuildChildren(child_nodes, buffer, k) ==
    IF k = 0
      THEN [children |-> <<>>, buffer |-> buffer]
      ELSE LET acc   == BuildChildren(child_nodes, buffer, k - 1)
               built == build(child_nodes[k], acc.buffer)
           IN  [children |-> Append(acc.children, built.i), buffer |-> built.buffer]

\* A build that appends the builder's own node before its children's.
build_ParentFirst(self, buffer) ==
    LET i    == Len(buffer)
        mine == Append(buffer, [children |-> <<>>, node_type |-> self.node_type])
        done == BuildChildren(self.child_nodes, mine, Len(self.child_nodes))
    IN  [i |-> i,
         buffer |-> [done.buffer EXCEPT ![i + 1].children = done.children]]

build(self, buffer) ==
    LET done == BuildChildren(self.child_nodes, buffer, Len(self.child_nodes))
        i    == Len(done.buffer)
    IN  [i |-> i,
         buffer |-> Append(done.buffer, [children |-> done.children,
                                         node_type |-> self.node_type])]

(***************************************************************************)
(* send_c_commands_packet.                                                 *)
(***************************************************************************)
\* A loop body that pushes an empty Literal for a key whose tree is not found.
FirstLevelStep_KeepsFailed(cmd_src, d, key, first_level) ==
    LET found == get_tree(d, key)
        sub   == nodes_to_proto_node_builders(cmd_src, found.tree.nodes,
                                              found.tree.children)
    IN  Append(first_level,
               [child_nodes |-> sub.child_nodes,
                node_type |-> [t |-> "Literal", name |-> key,
                               is_executable |-> sub.is_executable]])

\* The body of `for key in dispatcher.commands.keys()`: a key whose tree is
\* not found is skipped, any other pushes one Literal builder.
FirstLevelStep(cmd_src, d, key, first_level) ==
    LET found == get_tree(d, key) IN
    IF ~found.ok
      THEN first_level
      ELSE LET sub == nodes_to_proto_node_builders(cmd_src, found.tree.nodes,
                                                   found.tree.children)
           IN  Append(first_level,
                      [child_nodes |-> sub.child_nodes,
                       node_type |-> [t |-> "Literal", name |-> key,
                                      is_executable |-> sub.is_executable]])

RECURSIVE FirstLevel(_, _, _, _)
\* first_level after the loop has visited the first k keys of the enumeration.
FirstLevel(cmd_src, d, keys, k) ==
    IF k = 0 THEN <<>>
             ELSE FirstLevelStep(cmd_src, d, keys[k], FirstLevel(cmd_src, d, keys, k - 1))

\* The packet built for player, with the keys enumerated in the order keys.
CCommands(player, d, keys) ==
    LET cmd_src     == CommandSenderPlayer(player)
        first_level == FirstLevel(cmd_src, d, keys, Len(keys))
        root        == [child_nodes |-> first_level, node_type |-> [t |-> "Root"]]
        built       == build(root, <<>>)
    IN  [nodes |-> built.buffer, root_node_index |-> built.i]

\* dispatcher.commands.keys(): the keys of the map, in an order that the
\* map, not the caller, decides.
KeyOrders(d) ==
    LET K == DOMAIN d.commands IN
    {o \in [1..Cardinality(K) -> K] : \A i, j \in DOMAIN o : i # j => o[i] # o[j]}

\* send_c_commands_packet(player, dispatcher): one packet, sent to the
\* player's client.  A player is sent its commands once, when it is spawned.
SendCCommands(player) ==
    /\ outbox[player] = <<>>
    /\ \E keys \in KeyOrders(dispatcher) :
         outbox' = [outbox EXCEPT ![player] =
                      Append(@, [keys |-> keys,
                                 packet |-> CCommands(player, dispatcher, keys)])]
    /\ UNCHANGED <<procVars, main_pc, use_console, sigVars, console_pc, connVars,
                   dispatcher, loopVars, ticker_pc>>

Init ==
    /\ proc = "running"
    /\ panic_hook = "default"
    /\ main_pc = "spawn_sighandler"
    /\ use_console \in BOOLEAN
    /\ sig_pc = "unspawned"
    /\ sig_stage = 1
    /\ installed = {}
    /\ pending = {}
    /\ default_hit = "none"
    /\ panicked = {}
    /\ console_pc = "unspawned"
    /\ master_client_id = 0
    /\ accepted = 0
    /\ id = -1
    /\ ticker_pc = "unspawned"
    /\ clients = <<>>
    /\ closed_first = {}
    /\ dispatcher = EmptyDispatcher
    /\ outbox = NoPackets

Next ==
    \/ MainSpawnSighandler
    \/ MainSetHook
    \/ MainSetup
    \/ SigSignal
    \/ SigRecv
    \/ \E s \in Signals : Deliver(s)
    \/ ConsoleReadLine
    \/ MainAccept
    \/ \E c \in 1..MaxConns : ConnStep(c)

Spec == Init /\ [][Next]_vars

(***************************************************************************)
(* The compiler on its own: every dispatcher of at most MaxNodes nodes,    *)
(* and one send_c_commands_packet per player.                              *)
(***************************************************************************)
RECURSIVE SortedSeq(_)
\* The elements of a finite set of integers, in increasing order.
SortedSeq(S) ==
    IF S = {} THEN <<>>
    ELSE LET m == CHOOSE x \in S : \A y \in S : x <= y
         IN  <<m>> \o SortedSeq(S \ {m})

\* parent[i] is the node over node i, or -k for a node directly under the
\* command registered as KeySeq[k].
RECURSIVE OwnerOf(_, _)
OwnerOf(parent, i) == IF parent[i] < 0 THEN -parent[i] ELSE OwnerOf(parent, parent[i])

ChildrenOf(parent, x) == SortedSeq({j \in DOMAIN parent : parent[j] = x})

TreeOf(parent, kind, k) ==
    [nodes    |-> [i \in {j \in DOMAIN parent : OwnerOf(parent, j) = k} |->
                     [node_type |-> kind[i].t, name |-> NodeNames[i],
                      lvl |-> kind[i].lvl, children |-> ChildrenOf(parent, i)]],
     children |-> ChildrenOf(parent, -k)]

\* The dispatcher with the keys K, of which those in F resolve to no tree.
DispatcherOf(K, F, parent, kind) ==
    [commands |-> [key \in {KeySeq[k] : k \in K} |->
        LET k == CHOOSE x \in K : KeySeq[x] = key IN
        IF k \in F THEN [has_tree |-> FALSE]
                   ELSE [has_tree |-> TRUE, tree |-> TreeOf(parent, kind, k)]]]

\* The arenas a dispatcher can hold: every index a child of exactly one
\* earlier node or of one command, and no children under an ExecuteLeaf.
Arenas(T, n) ==
    {pk \in [1..n -> ({-k : k \in T} \cup (1..(n - 1)))] \X [1..n -> Kinds] :
        \A i \in 1..n :
           /\ pk[1][i] < i
           /\ pk[1][i] > 0 => pk[2][pk[1][i]].t # "ExecuteLeaf"}

CmdInit ==
    /\ proc = "running"
    /\ panic_hook = "exit1"
    /\ main_pc = "accept"
    /\ use_console = FALSE
    /\ sig_pc = "recv"
    /\ sig_stage = 1
    /\ installed = {"interrupt"}
    /\ pending = {}
    /\ default_hit = "none"
    /\ panicked = {}
    /\ console_pc = "unspawned"
    /\ master_client_id = 0
    /\ accepted = 0
    /\ id = -1
    /\ ticker_pc = "tick"
    /\ clients = <<>>
    /\ closed_first = {}
    /\ outbox = NoPackets
    /\ \E K \in SUBSET (1..Len(KeySeq)) : \E F \in SUBSET K :
       \E n \in 0..MaxNodes :
         /\ (K \ F = {}) => n = 0
         /\ \E pk \in Arenas(K \ F, n) :
              dispatcher = DispatcherOf(K, F, pk[1], pk[2])

CmdNext == \E player \in Players : SendCCommands(player)

CmdSpec == CmdInit /\ [][CmdNext]_vars

(***************************************************************************)
(* The server once main is in its accept loop: the hook is installed, the  *)
(* signal task is listening and the tick task has been spawned.            *)
(***************************************************************************)
Serving ==
    /\ proc = "running"
    /\ panic_hook = "exit1"
    /\ main_pc = "accept"
    /\ use_console = FALSE
    /\ sig_pc = "recv"
    /\ sig_stage = 1
    /\ installed = {"interrupt"}
    /\ pending = {}
    /\ default_hit = "none"
    /\ panicked = {}
    /\ console_pc = "unspawned"
    /\ ticker_pc = "tick"
    /\ closed_first = {}
    /\ dispatcher = EmptyDispatcher
    /\ outbox = NoPackets

(***************************************************************************)
(* One connection task, from its spawn, with the frames of its peer.       *)
(***************************************************************************)
ConnInit ==
    /\ Serving
    /\ master_client_id = 1
    /\ accepted = 1
    /\ id = 0
    /\ \E nodelay \in BOOLEAN : clients = <<NewClient(0, nodelay)>>

ConnNext == ConnStep(1) \/ FrameArrives(1)

ConnSpec == ConnInit /\ [][ConnNext]_vars

\* The runtime keeps running a task that is ready, and every call the task
\* awaits returns.
ConnFairSpec == ConnSpec /\ WF_vars(ConnTask(1))

(***************************************************************************)
(* The whole process with the tick task running.  The runtime keeps        *)
(* running the tick task while the process lives.                          *)
(***************************************************************************)
TickNext == Next \/ TickerRun

TickSpec == Init /\ [][TickNext]_vars /\ WF_vars(TickerTick) /\ WF_vars(TickerSleep)

(***************************************************************************)
(* The accept loop over a long run of sockets.  The first MaxConns         *)
(* connections are followed, and of their tasks the steps that end a       *)
(* connection closed before any promotion.                                 *)
(***************************************************************************)
AcceptInit ==
    /\ Serving
    /\ master_client_id = 0
    /\ accepted = 0
    /\ id = -1
    /\ clients = <<>>

ConnClose(c) ==
    \/ SetClosed(c)
    \/ At(c, "loop_closed") /\ clients[c].closed /\ LoopLoadClosed(c)
    \/ IfMakePlayer(c)

AcceptNext ==
    \/ MainAccept
    \/ MainAcceptUnfollowed
    \/ \E c \in 1..MaxConns : ConnClose(c)

AcceptSpec == AcceptInit /\ [][AcceptNext]_vars

(***************************************************************************)
(* Properties of the connection task, the signal task and the panic hook.  *)
(***************************************************************************)
IsPrefix(s, t) == Len(s) <= Len(t) /\ \A i \in 1..Len(s) : s[i] = t[i]

\* The calls of a promoted connection, with and without in-game polls.
Lifecycle       == <<"add_player", "spawn_player", "poll", "remove", "remove_player">>
LifecycleNoPoll == <<"add_player", "spawn_player", "remove", "remove_player">>

\* C1: per connection, add_player is called at most once, spawn_player once
\* after it and before any in-game poll, player.remove and
\* Server::remove_player once each, in that order, after the last in-game
\* poll, both done by the time the task ends; a connection that was never
\* added makes none of these calls.
C1_LifecycleCallsOnce ==
    \A c \in 1..Len(clients) :
        LET k == clients[c].calls IN
        /\ IsPrefix(k, Lifecycle) \/ IsPrefix(k, LifecycleNoPoll)
        /\ clients[c].pc = "done" =>
              k = <<>> \/ k = Lifecycle \/ k = LifecycleNoPoll
        /\ clients[c].pc \in {"player_poll", "player_process_packets"} =>
              Len(k) >= 2 /\ k[2] = "spawn_player"

C1_Witness ==
    \E c \in 1..Len(clients) :
        clients[c].pc = "done" /\ clients[c].calls = Lifecycle

\* C2 as claimed: a connection whose closed flag was set while make_player
\* was unset never has add_player called for it.
C2_ClosedFirstNeverAdded ==
    \A c \in closed_first : "add_player" \notin
        {clients[c].calls[i] : i \in 1..Len(clients[c].calls)}

\* C3 as claimed, for the signals that arrive once the task is listening:
\* no signal finds the process without a listener for it (which would leave
\* it to the kind's default disposition instead of handle_interrupt).
C3_EverySignalHandled ==
    sig_pc = "recv" => default_hit = "none"

\* C4 as claimed: a panic in any task ends the process with status 1.
C4_PanicExitsOne ==
    panicked # {} => proc = "exit1"

\* C10: a flag that is set stays set, in every step of every task, the
\* handoff of the client into the player included.
C10_FlagsMonotonic ==
    [][\A c \in 1..Len(clients) :
          /\ clients[c].closed => clients'[c].closed
          /\ clients[c].make_player => clients'[c].make_player]_vars

C10_Witness ==
    \E c \in 1..Len(clients) :
        /\ clients[c].closed /\ clients[c].make_player
        /\ c \in closed_first
        /\ clients[c].pc = "player_loop"

(***************************************************************************)
(* Properties of the compiled packets.                                     *)
(***************************************************************************)
Sent(p) == outbox[p] # <<>>

Packet(p) == outbox[p][1].packet

Range(f) == {f[i] : i \in DOMAIN f}

\* The keys whose tree is found, and their trees.
Resolved == {key \in DOMAIN dispatcher.commands : get_tree(dispatcher, key).ok}

TreeAt(key) == get_tree(dispatcher, key).tree

Passes(node, p) == Predicate(node, CommandSenderPlayer(p))

\* The wire nodes of a packet other than the Root.
WireNodes(pkt) == {w \in Range(pkt.nodes) : w.node_type.t # "Root"}

WireNames(pkt) == {w.node_type.name : w \in WireNodes(pkt)}

\* Node i of the tree lies under a Require that fails for player p.
RECURSIVE Pruned(_, _, _)
Pruned(tree, i, p) ==
    \E j \in DOMAIN tree.nodes :
        /\ i \in Range(tree.nodes[j].children)
        /\ \/ tree.nodes[j].node_type = "Require" /\ ~Passes(tree.nodes[j], p)
           \/ Pruned(tree, j, p)

\* C5: no node under a Require that fails for the requester has a wire node
\* in the packet, at any depth below the gate, and no Require has a wire
\* node, whether it passes or fails.
C5_FailedGatePrunesSubtree ==
    \A p \in Players : Sent(p) =>
        /\ \A w \in Range(Packet(p).nodes) :
              w.node_type.t \in {"Root", "Literal", "Argument"}
        /\ \A key \in Resolved : \A i \in DOMAIN TreeAt(key).nodes :
              LET node == TreeAt(key).nodes[i] IN
              (node.node_type = "Require" \/ Pruned(TreeAt(key), i, p))
                  => node.name \notin WireNames(Packet(p))

\* A packet compiled from a tree in which a failing gate hides a node and a
\* node below that one, while the other player is shown both.
C5_Witness ==
    \E p, q \in Players : \E key \in Resolved :
    \E i, j \in DOMAIN TreeAt(key).nodes :
        /\ Sent(p) /\ Sent(q)
        /\ Pruned(TreeAt(key), i, p)
        /\ j \in Range(TreeAt(key).nodes[i].children)
        /\ TreeAt(key).nodes[j].node_type \in {"Literal", "Argument"}
        /\ TreeAt(key).nodes[j].name \in WireNames(Packet(q))
        /\ TreeAt(key).nodes[j].name \notin WireNames(Packet(p))

\* A child list makes its owner executable: it holds an ExecuteLeaf, or a
\* Require that passes and whose own child list does.
RECURSIVE ExecutableVia(_, _, _)
ExecutableVia(tree, children, p) ==
    \E k \in DOMAIN children :
        LET node == tree.nodes[children[k]] IN
        \/ node.node_type = "ExecuteLeaf"
        \/ /\ node.node_type = "Require" /\ Passes(node, p)
           /\ ExecutableVia(tree, node.children, p)

\* The arena child list a wire node was compiled from: the tree's top
\* children for a command's literal, the node's children otherwise.
ArenaChildren(key, name) ==
    IF name = key THEN TreeAt(key).children
    ELSE LET i == CHOOSE x \in DOMAIN TreeAt(key).nodes :
                      TreeAt(key).nodes[x].name = name
         IN  TreeAt(key).nodes[i].children

OwnsName(key, name) ==
    name = key \/ \E i \in DOMAIN TreeAt(key).nodes : TreeAt(key).nodes[i].name = name

\* C6: a wire Literal or Argument, a command's own literal included, is
\* executable exactly when its arena child list holds an ExecuteLeaf
\* directly or through passing Requires only.
C6_ExecutableIffLeafOrPassingGate ==
    \A p \in Players : Sent(p) =>
        \A w \in WireNodes(Packet(p)) : \A key \in Resolved :
            OwnsName(key, w.node_type.name) =>
                (w.node_type.is_executable
                    <=> ExecutableVia(TreeAt(key), ArenaChildren(key, w.node_type.name), p))

\* A command literal made executable only through two nested passing gates.
C6_Witness ==
    \E p \in Players : \E key \in Resolved :
    \E a, b, c \in DOMAIN TreeAt(key).nodes :
        LET ns == TreeAt(key).nodes IN
        /\ Sent(p)
        /\ a \in Range(TreeAt(key).children)
        /\ \A x \in Range(TreeAt(key).children) : ns[x].node_type # "ExecuteLeaf"
        /\ ns[a].node_type = "Require" /\ Passes(ns[a], p)
        /\ ns[b].node_type = "Require" /\ Passes(ns[b], p)
        /\ b \in Range(ns[a].children)
        /\ ns[c].node_type = "ExecuteLeaf" /\ c \in Range(ns[b].children)
        /\ \E w \in WireNodes(Packet(p)) :
              w.node_type.name = key /\ w.node_type.is_executable

\* C7: the packet's array holds exactly one Root, at its last index, which
\* is the packet's root index, and every child index stored at a position
\* is smaller than that position.
C7_RootLastChildrenBelow ==
    \A p \in Players : Sent(p) =>
        LET pkt == Packet(p)
            n   == Len(pkt.nodes)
        IN  /\ n >= 1
            /\ pkt.root_node_index = n - 1
            /\ {i \in 1..n : pkt.nodes[i].node_type.t = "Root"} = {n}
            /\ \A i \in 1..n : \A c \in Range(pkt.nodes[i].children) :
                  0 <= c /\ c < i - 1

C7_Witness ==
    \E p \in Players :
        /\ Sent(p)
        /\ Len(Packet(p).nodes) >= 4
        /\ Len(Packet(p).nodes[Len(Packet(p).nodes)].children) = 2
        /\ \E w \in WireNodes(Packet(p)) : w.children # <<>>

\* Every Require of the dispatcher gives two players the same result.
SameGates(p, q) ==
    \A key \in Resolved : \A i \in DOMAIN TreeAt(key).nodes :
        TreeAt(key).nodes[i].node_type = "Require"
            => (Passes(TreeAt(key).nodes[i], p) <=> Passes(TreeAt(key).nodes[i], q))

\* C8 as claimed: two packets compiled from the same dispatcher for
\* requesters with equal predicate results are identical, whatever the
\* order in which the keys were enumerated.
C8_SamePacketAnyKeyOrder ==
    \A p, q \in Players :
        (Sent(p) /\ Sent(q) /\ SameGates(p, q)) => Packet(p) = Packet(q)

\* C9: whatever names fail to resolve, one packet is sent; its Root has one
\* child per resolved name, a Literal of that name, in enumeration order,
\* and no wire node for a name that failed.
C9_FailedNamesSkipped ==
    \A p \in Players : Sent(p) =>
        LET pkt  == Packet(p)
            keys == outbox[p][1].keys
            ok   == SelectSeq(keys, LAMBDA key : key \in Resolved)
            root == pkt.nodes[pkt.root_node_index + 1]
        IN  /\ Len(outbox[p]) = 1
            /\ root.node_type.t = "Root"
            /\ Len(root.children) = Len(keys) - Cardinality(Range(keys) \ Resolved)
            /\ \A j \in DOMAIN root.children :
                  /\ pkt.nodes[root.children[j] + 1].node_type.t = "Literal"
                  /\ pkt.nodes[root.children[j] + 1].node_type.name = ok[j]
            /\ WireNames(pkt) \cap (Range(keys) \ Resolved) = {}

C9_Witness ==
    \E p \in Players :
        /\ Sent(p)
        /\ Resolved # {}
        /\ DOMAIN dispatcher.commands \ Resolved # {}
        /\ Len(Packet(p).nodes) >= 3

(***************************************************************************)
(* Properties of the frames of one connection.                             *)
(***************************************************************************)
\* The frames 1..n, in arrival order.
Upto(n) == [i \in 1..n |-> i]

FramesOf(h) == [i \in 1..Len(h) |-> h[i].frame]

\* C11: the frames handled so far, by either handler, then the frames read
\* and not yet handled, then the frames not yet read, are the frames that
\* arrived, each once and in arrival order; a frame is handled in-game only
\* after every frame handled before authentication; and whenever the task
\* is not inside a handler no read frame is left unhandled, so a frame
\* that was queued when make_player was stored is neither dropped nor
\* handled twice.
C11_FramesInOrderOnce ==
    \A c \in 1..Len(clients) :
        LET k == clients[c] IN
        /\ FramesOf(k.handled) \o k.queue \o k.wire = Upto(k.sent)
        /\ \A i, j \in 1..Len(k.handled) :
              /\ k.handled[i].by \in {"client", "player"}
              /\ (i < j /\ k.handled[i].by = "player") => k.handled[j].by = "player"
        /\ k.queue # <<>> =>
              k.pc \in {"process_packets", "player_process_packets", "panicked"}

\* A task that has ended after both handlers took frames, one of them a
\* frame that was queued when make_player was stored.
C11_Witness ==
    \E c \in 1..Len(clients) :
        LET k == clients[c] IN
        /\ k.pc = "done"
        /\ k.at_promote # <<>>
        /\ \E i, j \in 1..Len(k.handled) :
              /\ k.handled[i].frame = k.at_promote[1]
              /\ k.handled[i].by = "client"
              /\ k.handled[j].by = "player"

(***************************************************************************)
(* Properties of the tick task.                                            *)
(***************************************************************************)
\* The process has ended, or main has not yet reached its accept loop.
NotServing == ~Running \/ main_pc \in {"spawn_sighandler", "set_hook", "setup"}

\* C12: while the process serves, the tick task keeps running the
\* world-update step and keeps sleeping until the next one, again and
\* again, whatever the connection tasks do; and a connection task that has
\* not ended always has a step of its own to take, whatever the tick task
\* is doing.
C12_TickerIndependent ==
    /\ []<>(NotServing \/ ticker_pc = "sleep")
    /\ []<>(NotServing \/ ticker_pc = "tick")
    /\ [](\A c \in 1..Len(clients) : Alive(c) => ENABLED ConnTask(c))

\* The tick task has run a world update and sleeps while a connection is
\* blocked in a poll of its in-game loop.
C12_Witness ==
    /\ Running /\ ticker_pc = "sleep"
    /\ \E c \in 1..Len(clients) : clients[c].pc = "player_poll"

(***************************************************************************)
(* Properties of the accept loop.                                          *)
(***************************************************************************)
\* C13: every accept that succeeds takes the next identifier and leaves
\* main in its accept loop, and, for a followed connection, appends the
\* client that Client::new makes for that identifier, its task at the
\* start of the pre-authentication loop, whether set_nodelay succeeded on
\* the socket or failed.
C13_NodelayFailureProceeds ==
    [][accepted' # accepted =>
          /\ accepted' = accepted + 1
          /\ main_pc' = "accept"
          /\ id' = master_client_id
          /\ Len(clients) < MaxConns =>
                /\ Len(clients') = Len(clients) + 1
                /\ \E nodelay \in BOOLEAN :
                      clients' = Append(clients, NewClient(id', nodelay))]_vars

\* A connection whose set_nodelay failed got the first identifier, its
\* task has run to its end, and the loop has accepted further sockets.
C13_Witness ==
    /\ main_pc = "accept" /\ accepted >= 2
    /\ Len(clients) >= 1
    /\ ~clients[1].nodelay /\ clients[1].id = 0 /\ clients[1].pc = "done"

\* C19: the k-th accepted socket (k from 0) gets the identifier k mod 2^16
\* and the counter then holds (k + 1) mod 2^16; no task panics, and main
\* leaves the loop only by returning an accept error; so a followed
\* connection and the latest accepted one have the same identifier exactly
\* when their ordinals differ by a multiple of 2^16, whatever the state of
\* the earlier one's task.
C19_IdsWrapAtU16 ==
    /\ panicked = {} /\ proc = "running"
    /\ main_pc \in {"accept", "returned"}
    /\ master_client_id = accepted % U16Modulus
    /\ accepted > 0 => id = (accepted - 1) % U16Modulus
    /\ \A c \in 1..Len(clients) :
          /\ clients[c].id = (c - 1) % U16Modulus
          /\ accepted > 0 =>
                (clients[c].id = id <=> (accepted - c) % U16Modulus = 0)

\* The socket of ordinal 2^16 has been given the identifier of the first
\* connection, whose task has not ended.
C19_Witness ==
    /\ accepted = U16Modulus + 1
    /\ Len(clients) >= 1
    /\ id = clients[1].id
    /\ clients[1].pc # "done"

\* C20: the step in which accept fails only moves main to its return: it
\* changes no client, no flag, no task and no identifier; and once main
\* has returned it stays returned, no socket is accepted and no identifier
\* is assigned.
C20_AcceptErrorEndsLoop ==
    [][/\ (main_pc # "returned" /\ main_pc' = "returned") =>
             /\ main_pc = "accept"
             /\ UNCHANGED <<clients, closed_first, console_pc, ticker_pc, sig_pc,
                            master_client_id, accepted, id, proc>>
       /\ main_pc = "returned" =>
             /\ main_pc' = "returned"
             /\ Len(clients') = Len(clients)
             /\ UNCHANGED <<master_client_id, accepted, id>>]_vars

\* main has returned while a connection task polls with its closed flag
\* unset, the console task reads and the tick task has ticked.
C20_Witness ==
    /\ Running /\ main_pc = "returned"
    /\ console_pc = "read_line" /\ ticker_pc = "sleep"
    /\ \E c \in 1..Len(clients) :
          ~clients[c].closed /\ clients[c].pc = "player_poll"

(***************************************************************************)
(* Properties of the two loops of one connection task.                     *)
(***************************************************************************)
\* The positions of the pre-authentication loop and of the in-game loop.
ClientPolling == {"loop_closed", "loop_make_player", "poll", "process_packets"}

PlayerPolling == {"player_loop", "player_poll", "player_process_packets"}

HandledBy(k, by) == {i \in 1..Len(k.handled) : k.handled[i].by = by}

\* C14: the task is in client.process_packets only with the open result
\* of the poll before it, and in player.process_packets only with an open
\* result and after add_player and spawn_player; it reaches the raw poll
\* only from a loop test in which both closed and make_player were read
\* unset; a loop test that reads either flag set leaves the loop, and
\* outside the loop the task never returns to it; frames are handled by
\* the client handler only in process_packets and by the player handler
\* only in player.process_packets.
C14_HandlersOnlyInPhase ==
    /\ [](\A c \in 1..Len(clients) :
            LET k == clients[c] IN
            /\ k.pc = "process_packets" => k.open
            /\ k.pc = "player_process_packets" =>
                  k.open /\ k.calls = <<"add_player", "spawn_player", "poll">>
            /\ HandledBy(k, "player") # {} =>
                  IsPrefix(<<"add_player", "spawn_player", "poll">>, k.calls))
    /\ [][\A c \in 1..Len(clients) :
            LET k == clients[c]
                n == clients'[c]
            IN  k.pc # n.pc =>
                /\ n.pc = "loop_make_player" => k.pc = "loop_closed" /\ ~k.closed
                /\ n.pc = "poll" => k.pc = "loop_make_player" /\ ~k.make_player
                /\ n.pc = "process_packets" => k.pc = "poll"
                /\ (k.pc = "loop_closed" /\ k.closed) => n.pc \notin ClientPolling
                /\ (k.pc = "loop_make_player" /\ k.make_player)
                      => n.pc \notin ClientPolling
                /\ k.pc \notin ClientPolling => n.pc \notin ClientPolling
                /\ n.pc = "player_process_packets" => k.pc = "player_poll"
                /\ HandledBy(n, "client") # HandledBy(k, "client")
                      => k.pc = "process_packets"
                /\ HandledBy(n, "player") # HandledBy(k, "player")
                      => k.pc = "player_process_packets"]_vars

\* The task is in the in-game handler with a frame to handle, after the
\* pre-authentication handler took an earlier frame.
C14_Witness ==
    \E c \in 1..Len(clients) :
        /\ clients[c].pc = "player_process_packets"
        /\ clients[c].queue # <<>>
        /\ HandledBy(clients[c], "client") # {}

Ended(c) == clients[c].pc \in {"done", "panicked"}

\* C15, for the connection of ConnSpec, whose task is kept running and
\* whose calls return unless one panics: a task in the pre-authentication
\* loop with closed or make_player set leaves that loop; a promoted task
\* with closed set ends, and has then called player.remove and
\* Server::remove_player; and a task leaves the in-game loop, or has ended
\* after it, only with closed set.
C15_TaskEndsWhenFlagsAllow ==
    /\ (clients[1].pc \in ClientPolling
            /\ (clients[1].closed \/ clients[1].make_player))
          ~> (clients[1].pc \notin ClientPolling)
    /\ (clients[1].calls # <<>> /\ clients[1].closed) ~> Ended(1)
    /\ [](clients[1].pc = "done" /\ clients[1].calls # <<>> =>
             /\ clients[1].closed
             /\ clients[1].calls \in {Lifecycle, LifecycleNoPoll})
    /\ [][(clients[1].pc \in PlayerPolling /\ clients'[1].pc \notin PlayerPolling)
             => (clients'[1].pc = "panicked"
                   \/ (clients[1].closed /\ clients'[1].pc = "remove"))]_vars

\* A promoted task that polled in game, was closed, and has ended after
\* its cleanup.
C15_Witness ==
    /\ clients[1].pc = "done" /\ clients[1].closed
    /\ clients[1].calls = Lifecycle
    /\ HandledBy(clients[1], "player") # {}

\* The calls a task has made when it is at a position after the loop and
\* its in-game loop ran for no iteration.
CallsBefore(pc) ==
    CASE pc \in {"if_make_player", "add_player"} -> <<>>
      [] pc = "spawn_player" -> <<"add_player">>
      [] pc \in {"player_loop", "remove"} -> <<"add_player", "spawn_player">>
      [] pc = "remove_player" -> <<"add_player", "spawn_player", "remove">>
      [] pc = "done" -> LifecycleNoPoll
      [] OTHER -> <<"none">>

\* Both flags are set, and the task is past its pre-authentication loop
\* with the calls of a participant whose in-game loop has not iterated.
NoInGameIteration(k) ==
    /\ k.closed /\ k.make_player
    /\ k.calls = CallsBefore(k.pc)
    /\ HandledBy(k, "player") = {}

\* C17: at the test after the loop the task has made no call, and if both
\* flags are set there its next step is add_player, closed or not; from
\* then on every step of the task keeps it on the path add_player,
\* spawn_player, player.remove, remove_player, with no in-game poll and no
\* in-game handling, up to the task's end (unless a call panics).
C17_PromoteDecidesAlone ==
    [][\A c \in 1..Len(clients) :
          LET k == clients[c]
              n == clients'[c]
          IN  /\ k.pc = "if_make_player" => k.calls = <<>>
              /\ (k.pc = "if_make_player" /\ n.pc # k.pc /\ k.make_player)
                    => n.pc = "add_player"
              /\ (k.pc = "if_make_player" /\ n.pc # k.pc /\ ~k.make_player)
                    => n.pc = "done" /\ n.calls = <<>>
              /\ NoInGameIteration(k) => (NoInGameIteration(n) \/ n.pc = "panicked")]_vars

\* A task that found both flags set at the test, closed having been set
\* first, and has ended after add_player, spawn_player, remove and
\* remove_player with no in-game poll.
C17_Witness ==
    \E c \in 1..Len(clients) :
        /\ c \in closed_first
        /\ clients[c].pc = "done"
        /\ NoInGameIteration(clients[c])

(***************************************************************************)
(* Properties of the shape of the compiled packets.                        *)
(***************************************************************************)
\* The names the claim expects under a child list: one per Literal or
\* Argument, those of a passing Require's children in its place, nothing
\* for an ExecuteLeaf or a failing Require.
RECURSIVE Spliced(_, _, _)
Spliced(tree, children, p) ==
    IF children = <<>> THEN <<>>
    ELSE LET node == tree.nodes[Head(children)]
             rest == Spliced(tree, Tail(children), p)
         IN  CASE node.node_type \in {"Literal", "Argument"} -> <<node.name>> \o rest
               [] node.node_type = "Require" /\ Passes(node, p) ->
                      Spliced(tree, node.children, p) \o rest
               [] OTHER -> rest

\* A child list with every passing Require replaced by its children.
RECURSIVE Flat(_, _, _)
Flat(tree, children, p) ==
    IF children = <<>> THEN <<>>
    ELSE LET node == tree.nodes[Head(children)]
             rest == Flat(tree, Tail(children), p)
         IN  IF node.node_type = "Require" /\ Passes(node, p)
               THEN Flat(tree, node.children, p) \o rest
               ELSE <<Head(children)>> \o rest

\* The dispatcher with every passing Require of every tree replaced by its
\* children, in place.
FlatDispatcher(d, p) ==
    [commands |-> [key \in DOMAIN d.commands |->
        IF ~d.commands[key].has_tree THEN d.commands[key]
        ELSE LET tree == d.commands[key].tree IN
             [has_tree |-> TRUE,
              tree |-> [nodes |-> [i \in DOMAIN tree.nodes |->
                                     [tree.nodes[i] EXCEPT
                                        !.children = Flat(tree, @, p)]],
                        children |-> Flat(tree, tree.children, p)]]]]

\* The names of the wire children of a wire node, in their order.
ChildNames(pkt, w) ==
    [j \in 1..Len(w.children) |-> pkt.nodes[w.children[j] + 1].node_type.name]

\* C16: the wire children of every compiled node are, in arena child
\* order, one node per Literal or Argument child, with the compiled
\* children of each passing Require at that Require's position, at any
\* nesting, and nothing for ExecuteLeaf children and failing Requires; and
\* the packet equals the one compiled, with the same key order, from the
\* dispatcher in which every passing Require is replaced by its children.
C16_PassingGateTransparent ==
    \A p \in Players : Sent(p) =>
        /\ \A w \in WireNodes(Packet(p)) : \A key \in Resolved :
              OwnsName(key, w.node_type.name) =>
                  ChildNames(Packet(p), w)
                      = Spliced(TreeAt(key), ArenaChildren(key, w.node_type.name), p)
        /\ Packet(p) = CCommands(p, FlatDispatcher(dispatcher, p), outbox[p][1].keys)

\* A packet from a tree in which a passing Require with a Literal or
\* Argument child comes after a Literal or Argument sibling: the command's
\* literal has the sibling and then the Require's child as wire children.
C16_Witness ==
    \E p \in Players : \E key \in Resolved :
    \E a, b, c \in DOMAIN TreeAt(key).nodes :
        LET ns  == TreeAt(key).nodes
            top == TreeAt(key).children
        IN  /\ Sent(p)
            /\ Len(top) = 2 /\ top[1] = a /\ top[2] = b
            /\ ns[a].node_type \in {"Literal", "Argument"}
            /\ ns[b].node_type = "Require" /\ Passes(ns[b], p)
            /\ ns[b].children = <<c>>
            /\ ns[c].node_type \in {"Literal", "Argument"}
            /\ \E w \in WireNodes(Packet(p)) :
                  /\ w.node_type.name = key
                  /\ ChildNames(Packet(p), w) = <<ns[a].name, ns[c].name>>

\* The number of times index i occurs in the child lists of the packet.
RECURSIVE Occurrences(_, _, _)
Occurrences(pkt, i, k) ==
    IF k = 0 THEN 0
    ELSE Occurrences(pkt, i, k - 1)
           + Cardinality({j \in 1..Len(pkt.nodes[k].children) :
                            pkt.nodes[k].children[j] = i})

\* The indices reachable from index i through child lists.
RECURSIVE Reach(_, _)
Reach(pkt, i) ==
    LET kids == pkt.nodes[i + 1].children IN
    {i} \cup UNION {Reach(pkt, kids[j]) : j \in 1..Len(kids)}

\* The Literal and Argument arena nodes of the resolved trees under no
\* Require that fails for p.
Emitted(p) ==
    {<<key, i>> \in Resolved \X (1..MaxNodes) :
        /\ i \in DOMAIN TreeAt(key).nodes
        /\ TreeAt(key).nodes[i].node_type \in {"Literal", "Argument"}
        /\ ~Pruned(TreeAt(key), i, p)}

\* C18: in the packet's array every index but the root's occurs exactly
\* once in the child lists and the root's never, every index is reachable
\* from the root, and the length is 1 for the Root plus the resolved
\* command names plus the Literal and Argument arena nodes under passing
\* Requires only; when the trees emit no node the array is the commands'
\* Literals followed by the Root, whose children are 0, 1, .. in order.
C18_ArrayIsTree ==
    \A p \in Players : Sent(p) =>
        LET pkt == Packet(p)
            n   == Len(pkt.nodes)
            r   == pkt.root_node_index
        IN  /\ \A i \in 0..(n - 1) :
                  Occurrences(pkt, i, n) = IF i = r THEN 0 ELSE 1
            /\ Reach(pkt, r) = 0..(n - 1)
            /\ n = 1 + Cardinality(Resolved) + Cardinality(Emitted(p))
            /\ Emitted(p) = {} =>
                  /\ r = Cardinality(Resolved)
                  /\ pkt.nodes[r + 1].children = [j \in 1..r |-> j - 1]
                  /\ \A j \in 1..r :
                        /\ pkt.nodes[j].node_type.t = "Literal"
                        /\ pkt.nodes[j].children = <<>>

\* A packet for two commands in which one arena node is emitted under a
\* passing Require and, for the other player, pruned by it.
C18_Witness ==
    \E p, q \in Players :
        /\ Sent(p) /\ Sent(q)
        /\ Cardinality(Resolved) = 2
        /\ Len(Packet(p).nodes) = 4
        /\ Len(Packet(q).nodes) = 3
        /\ Emitted(q) = {}

=============================================================================
